---- MODULE Spec2Model ----
(***************************************************************************)
(* Model of scripts/mosaic_bulk.py: the per-tile asset selection            *)
(* (asset_filter followed by optimize_assets) and the zoom defaults of      *)
(* main.                                                                    *)
(*                                                                          *)
(* Geometry.  A tile is cut into Cells; a polygon clipped to the tile is    *)
(* the set of cells it covers.  Areas are integers in units of half the     *)
(* coverage tolerance, so that 1e-4 is the integer Epsilon, an area below   *)
(* the tolerance (Epsilon - 1) and an area exactly at it both exist.        *)
(* difference / intersection are set difference / intersection.            *)
(***************************************************************************)
EXTENDS Integers, Sequences, FiniteSets

\* ------------------------------------------------------------------ bounds
MaxCand  == 3      \* most candidates handed to asset_filter for one tile
MaxScale == 2      \* scales are 1..MaxScale
MaxYear  == 2      \* years are 1..MaxYear
MaxZoom  == 6      \* zoom levels given to or computed by main are 0..MaxZoom

\* -------------------------------------------------------- program constant
\* The constant 1e-4 of the stop test (line 232), in area units of 0.5e-4.
Epsilon == 2

\* The tiles of the model, each given by the areas of its two cells: two
\* halves, a half with a strip of exactly the tolerance, and a half with a
\* strip just below the tolerance.
Tiles == { <<500 * Epsilon, 500 * Epsilon>>,
           <<500 * Epsilon, Epsilon>>,
           <<500 * Epsilon, Epsilon - 1>> }

Cells == { 1, 2 }

VARIABLES
    pc,            \* "start" | "loop" | "done" | "error" ("idle" while main runs)
    tile,          \* the tile the selector is run for (the areas of its cells)
    features,      \* intersect_dataset zipped with intersect_geoms, as supplied
    gdf,           \* the candidate pool of optimize_assets
    final_assets,  \* the assets selected so far
    tile_geom,     \* the part of the tile not covered yet
    iters,         \* iterations of the while loop that have run
    pool0,         \* len(gdf) when optimize_assets was entered
    last,          \* the last iteration: pool as sorted, geometry before it
    mpc,           \* main: "idle" | "args" | "called"
    opts,          \* main: the --minzoom and --maxzoom options as parsed
    pct75,         \* main: the 75th percentile of the per-map maxzoom, rounded
    minzoom,       \* main: minzoom as passed to MosaicJSON.from_features
    maxzoom        \* main: maxzoom as passed to MosaicJSON.from_features
selvars  == <<pc, tile, features, gdf, final_assets, tile_geom, iters, pool0, last>>
mainvars == <<mpc, opts, pct75, minzoom, maxzoom>>
vars     == <<selvars, mainvars>>

\* ------------------------------------------------------------- geometry
RECURSIVE area(_, _)
area(t, geom) ==
    IF geom = {} THEN 0
    ELSE LET c == CHOOSE x \in geom : TRUE
         IN  t[c] + area(t, geom \ {c})

difference(a, b) == a \ b

intersection(a, b) == a \cap b

\* cogeo_mosaic.utils._intersect_percent for one geometry: the quotient
\* area(intersection) / area(tile) kept as numerator and denominator.
_intersect_percent(t, tg, geom) ==
    [num |-> area(t, intersection(tg, geom)), den |-> area(t, tg)]

\* p > q for two quotients with positive denominators
PctGreater(p, q) == p.num * q.den > q.num * p.den

\* --------------------------------------------------------------- sorting
\* Before with the year ascending (ascending=[True, True])
Before_year_ascending(a, b, by) ==
    \/ a.scale < b.scale
    \/ /\ a.scale = b.scale
       /\ IF by = "year" THEN a.year < b.year
                         ELSE PctGreater(a.int_pct, b.int_pct)

\* Before with the columns of the loop's sort swapped (['int_pct', 'scale'])
Before_pct_first(a, b, by) ==
    IF by = "year"
    THEN \/ a.scale < b.scale
         \/ a.scale = b.scale /\ a.year > b.year
    ELSE \/ PctGreater(a.int_pct, b.int_pct)
         \/ ~PctGreater(b.int_pct, a.int_pct) /\ a.scale < b.scale

\* Row a goes strictly before row b under sort_values(by, ascending):
\*   by = "year":    ['scale', 'year'],    ascending [True, False]
\*   by = "int_pct": ['scale', 'int_pct'], ascending [True, False]
Before(a, b, by) ==
    \/ a.scale < b.scale
    \/ /\ a.scale = b.scale
       /\ IF by = "year" THEN a.year > b.year
                         ELSE PctGreater(a.int_pct, b.int_pct)

\* x put into the sorted s behind every row it does not go strictly before
InsertRow(x, s, by) ==
    LET idx == { i \in 1 .. Len(s) : Before(x, s[i], by) }
        k   == IF idx = {} THEN Len(s) + 1
               ELSE CHOOSE i \in idx : \A j \in idx : i <= j
    IN  SubSeq(s, 1, k - 1) \o <<x>> \o SubSeq(s, k, Len(s))

\* DataFrame.sort_values on several columns: a stable sort
RECURSIVE sort_values(_, _)
sort_values(s, by) ==
    IF s = <<>> THEN <<>>
    ELSE InsertRow(s[Len(s)], sort_values(SubSeq(s, 1, Len(s) - 1), by), by)

\* groupby_head without the grouping: every row kept
groupby_head_all(s) == s

\* groupby('cell_id').head(1): the first row of every group, order kept
RECURSIVE groupby_head(_)
groupby_head(s) ==
    IF s = <<>> THEN <<>>
    ELSE LET init == SubSeq(s, 1, Len(s) - 1)
             x    == s[Len(s)]
         IN  IF \E i \in 1 .. Len(init) : init[i].cell_id = x.cell_id
             THEN groupby_head(init)
             ELSE Append(groupby_head(init), x)

\* gdf['int_pct'] = _intersect_percent(tile_geom, gdf['intersect_geoms'])
WithIntPct(t, tg, s) ==
    [i \in 1 .. Len(s) |->
        [s[i] EXCEPT !.int_pct = _intersect_percent(t, tg, s[i].intersect_geoms)]]

\* iloc_rest that drops nothing (gdf.iloc[0:])
iloc_rest_keep(s) == s

\* gdf.iloc[1:]
iloc_rest(s) == SubSeq(s, 2, Len(s))

\* covered with the tolerance itself counted as covered (<= 0)
covered_inclusive(t, geom) == area(t, geom) - Epsilon <= 0

\* area(tile_geom) - 1e-4 < 0
covered(t, geom) == area(t, geom) - Epsilon < 0

\* The body of the while loop on pool s with tg left to cover: the pool as
\* sorted, the row taken, the rows left, the geometry left, and whether a
\* break is reached.
loop_pass(t, s, tg) ==
    LET sorted    == sort_values(WithIntPct(t, tg, s), "int_pct")
        top_asset == sorted[1]
        rest      == iloc_rest(sorted)
        left      == difference(tg, top_asset.intersect_geoms)
    IN  [sorted |-> sorted, top_asset |-> top_asset, gdf |-> rest,
         tile_geom |-> left,
         stop |-> (covered(t, left) \/ Len(rest) = 0)]

\* ---------------------------------------------------------------- inputs
NoPct == [num |-> 0, den |-> 1]

Geoms == SUBSET Cells \ {{}}

Attrs == [scale : 1 .. MaxScale, year : 1 .. MaxYear, intersect_geoms : Geoms]

Perms(n) == { p \in [1 .. n -> 1 .. n] : \A i, j \in 1 .. n : p[i] = p[j] => i = j }

MaxOf(S) == IF S = {} THEN 0 ELSE CHOOSE v \in S : \A w \in S : w <= v

\* cell_id is only ever compared for equality, so the groups of n rows are
\* named in order of first appearance.
Groupings(n) ==
    { g \in [1 .. n -> 1 .. n] :
        \A i \in 1 .. n : g[i] <= 1 + MaxOf({ g[j] : j \in 1 .. i - 1 }) }

\* An option of main: not given (None) or given with an integer value.
None == [given |-> FALSE, val |-> 0]

Given(v) == [given |-> TRUE, val |-> v]

ZoomOpts == { None } \cup { Given(v) : v \in 0 .. MaxZoom }

SelIdle ==
    /\ gdf = <<>>
    /\ final_assets = <<>>
    /\ tile_geom = {}
    /\ iters = 0
    /\ pool0 = 0
    /\ last = <<>>

MainIdle ==
    /\ mpc = "idle"
    /\ opts = [minzoom |-> None, maxzoom |-> None]
    /\ pct75 = 0
    /\ minzoom = 0
    /\ maxzoom = 0

\* Before asset_filter is called for a tile: the features intersecting it,
\* with pairwise distinct ids, in any order.
Init ==
    /\ pc = "start"
    /\ tile \in Tiles
    /\ \E n \in 0 .. MaxCand :
         \E a \in [1 .. n -> Attrs], p \in Perms(n), g \in Groupings(n) :
            features = [i \in 1 .. n |->
                          [id |-> p[i], scale |-> a[i].scale, year |-> a[i].year,
                           cell_id |-> g[i], intersect_geoms |-> a[i].intersect_geoms,
                           int_pct |-> NoPct]]
    /\ SelIdle
    /\ MainIdle

\* ------------------------------------------------------------ operations
\* asset_filter up to the entry of the loop of optimize_assets.  With no
\* feature the frame has no 'scale' column and sort_values raises KeyError.
asset_filter ==
    /\ pc = "start"
    /\ IF features = <<>>
       THEN /\ pc' = "error"
            /\ UNCHANGED <<gdf, tile_geom, pool0>>
       ELSE LET kept == groupby_head(sort_values(features, "year"))
            IN  /\ gdf' = kept
                /\ pool0' = Len(kept)
                /\ tile_geom' = Cells
                /\ pc' = "loop"
    /\ UNCHANGED <<tile, features, final_assets, iters, last, mainvars>>

\* One pass of the while loop of optimize_assets; the pass that breaks
\* returns final_assets, which asset_filter returns in turn.
optimize_assets ==
    /\ pc = "loop"
    /\ IF gdf = <<>>
       THEN \* gdf.iloc[0] raises IndexError
            /\ pc' = "error"
            /\ UNCHANGED <<gdf, final_assets, tile_geom, last, iters>>
       ELSE LET r == loop_pass(tile, gdf, tile_geom)
            IN  /\ gdf' = r.gdf
                /\ final_assets' = Append(final_assets, r.top_asset)
                /\ tile_geom' = r.tile_geom
                /\ iters' = iters + 1
                /\ last' = <<[pool |-> r.sorted, geom |-> tile_geom]>>
                /\ pc' = IF r.stop THEN "done" ELSE "loop"
    /\ UNCHANGED <<tile, features, pool0, mainvars>>

Next == asset_filter \/ optimize_assets

Spec == Init /\ [][Next]_vars

\* The whole selection as a function of the tile and the features supplied.
RECURSIVE run_loop(_, _, _, _)
run_loop(t, s, tg, acc) ==
    LET r == loop_pass(t, s, tg)
    IN  IF r.stop THEN Append(acc, r.top_asset)
        ELSE run_loop(t, r.gdf, r.tile_geom, Append(acc, r.top_asset))

selection(t, feats) ==
    run_loop(t, groupby_head(sort_values(feats, "year")), Cells, <<>>)

\* ------------------------------------------------------------------ main
\* Python's "not x" for an option: None and 0 are both falsy.
Falsy(x) == ~x.given \/ x.val = 0

InitMain ==
    /\ pc = "idle"
    /\ tile = <<>>
    /\ features = <<>>
    /\ SelIdle
    /\ mpc = "args"
    /\ opts \in [minzoom : ZoomOpts, maxzoom : ZoomOpts]
    /\ pct75 \in 0 .. MaxZoom
    /\ minzoom = 0
    /\ maxzoom = 0

\* main, lines 148-167: the zoom bounds passed to MosaicJSON.from_features
main ==
    /\ mpc = "args"
    /\ LET mz == IF Falsy(opts.maxzoom) THEN pct75 ELSE opts.maxzoom.val
       IN  /\ maxzoom' = mz
           /\ minzoom' = IF Falsy(opts.minzoom) THEN mz - 5 ELSE opts.minzoom.val
    /\ mpc' = "called"
    /\ UNCHANGED <<opts, pct75, selvars>>

NextMain == main

SpecMain == InitMain /\ [][NextMain]_vars

\* ================================================================ claims
Ids(s) == [i \in 1 .. Len(s) |-> s[i].id]

Rows(s) == { s[i] : i \in 1 .. Len(s) }

\* a is strictly preferred over b: scale ascending, then year descending
StrictlyPreferred(a, b) ==
    \/ a.scale < b.scale
    \/ a.scale = b.scale /\ a.year > b.year

FullCover(r) == r.intersect_geoms = Cells

Remaining == area(tile, tile_geom)

\* the rows of the last pass as sorted, the row it took, the rows it left
LastPool == last[1].pool

LastTop == LastPool[1]

LastRest == { LastPool[k] : k \in 2 .. Len(LastPool) }

\* the features supplied, put in order of asset id
ById(feats) ==
    [i \in 1 .. Len(feats) |-> CHOOSE r \in Rows(feats) : r.id = i]

\* ---------------------------------------------------------------------
\* C1: run for a tile with no candidate, the selector returns an empty
\* result and raises no error.
C1_EmptyYieldsEmpty ==
    (features = <<>> /\ pc # "start") => (pc = "done" /\ final_assets = <<>>)

\* ---------------------------------------------------------------------
\* C2: the loop runs at most pool0 passes, pool0 the size of the pool after
\* group deduplication at loop entry, and it terminates: while it is
\* running, the passes run and the rows still in the pool add up to pool0
\* and a row is left for the next pass.
C2_TerminationBound ==
    /\ iters <= pool0
    /\ pc = "loop" => (iters + Len(gdf) = pool0 /\ Len(gdf) >= 1)

C2_Witness == pc = "done" /\ pool0 >= 2 /\ iters = pool0

\* ---------------------------------------------------------------------
\* C3: given candidates with pairwise distinct ids, the result holds each
\* id at most once, during the loop and on return.
C3_NoDuplicate ==
    \A i, j \in 1 .. Len(final_assets) :
        final_assets[i].id = final_assets[j].id => i = j

C3_Witness ==
    /\ pc = "done"
    /\ Len(final_assets) >= 2
    /\ \A i, j \in 1 .. Len(features) : features[i].id = features[j].id => i = j

\* ---------------------------------------------------------------------
\* C4: after each pass the remaining area is strictly smaller than before
\* it, or the loop ends at that pass; the area never grows.
C4_CoverageMonotone ==
    last # <<>> =>
        /\ Remaining <= area(tile, last[1].geom)
        /\ (Remaining < area(tile, last[1].geom) \/ pc # "loop")

\* ---------------------------------------------------------------------
\* C5 as stated: for any two candidates A, B of the tile in different
\* groups, A strictly preferred over B and each fully covering the tile,
\* the result is [A]; a single candidate that fully covers gives [it].
C5_Original ==
    pc = "done" =>
        /\ \A i, j \in 1 .. Len(features) :
              ( /\ features[i].cell_id # features[j].cell_id
                /\ StrictlyPreferred(features[i], features[j])
                /\ FullCover(features[i])
                /\ FullCover(features[j]) )
              => Ids(final_assets) = <<features[i].id>>
        /\ (Len(features) = 1 /\ FullCover(features[1]))
              => Ids(final_assets) = <<features[1].id>>

\* C5 amended: a candidate A that fully covers the tile and is strictly
\* preferred over every other candidate of the tile is the whole result;
\* no B it is preferred over appears.
C5_PreferencePrecedence ==
    pc = "done" =>
        \A i \in 1 .. Len(features) :
            ( /\ FullCover(features[i])
              /\ \A j \in 1 .. Len(features) :
                    j # i => StrictlyPreferred(features[i], features[j]) )
            => Ids(final_assets) = <<features[i].id>>

C5_Witness ==
    /\ pc = "done"
    /\ \E i, j \in 1 .. Len(features) :
          /\ features[i].cell_id # features[j].cell_id
          /\ features[i].scale = features[j].scale
          /\ FullCover(features[i])
          /\ FullCover(features[j])
          /\ \A k \in 1 .. Len(features) :
                k # i => StrictlyPreferred(features[i], features[k])
          /\ Ids(final_assets) = <<features[i].id>>

\* ---------------------------------------------------------------------
\* C6: of every group of candidates sharing a cell_id exactly one member
\* reaches the loop, one over which no member of the group is strictly
\* preferred; so the result (taken from the pool) holds at most one asset
\* per cell_id and never a less preferred member.
C6_GroupDedup ==
    pc \in {"loop", "done"} =>
        LET passed == Rows(final_assets) \cup Rows(gdf)
        IN  /\ \A i \in 1 .. Len(features) :
                  Cardinality({ r \in passed : r.cell_id = features[i].cell_id }) = 1
            /\ \A r \in passed : \A i \in 1 .. Len(features) :
                  features[i].cell_id = r.cell_id
                      => ~StrictlyPreferred(features[i], r)
            /\ \A i, j \in 1 .. Len(final_assets) :
                  final_assets[i].cell_id = final_assets[j].cell_id => i = j

C6_Witness ==
    /\ pc = "done"
    /\ \E i, j \in 1 .. Len(features) :
          /\ features[i].cell_id = features[j].cell_id
          /\ StrictlyPreferred(features[i], features[j])
          /\ \E k \in 1 .. Len(final_assets) : final_assets[k].id = features[i].id
          /\ Len(final_assets) >= 2

\* ---------------------------------------------------------------------
\* C7: rows that tie on scale, year and residual fraction are taken in
\* order of asset id, so the result does not depend on the order the
\* candidates are supplied in.
C7_OrderIndependent ==
    /\ last # <<>> =>
          \A r \in LastRest :
              ( /\ r.scale = LastTop.scale
                /\ r.year = LastTop.year
                /\ ~PctGreater(r.int_pct, LastTop.int_pct)
                /\ ~PctGreater(LastTop.int_pct, r.int_pct) )
              => LastTop.id < r.id
    /\ pc = "done" =>
          Ids(final_assets) = Ids(selection(tile, ById(features)))

\* ---------------------------------------------------------------------
\* C8 as stated: no row still in the pool is strictly preferred, by scale
\* and then year, over the row a pass takes.
C8_Original ==
    last # <<>> => \A r \in LastRest : ~StrictlyPreferred(r, LastTop)

\* C8 amended: the row a pass takes has the lowest scale of the pool and,
\* among the rows of that scale, the largest fraction of the remaining
\* geometry; the year does not enter the loop's order.  A candidate of
\* strictly lowest scale that leaves at least the tolerance uncovered is
\* taken first and followed by another candidate when the pool has one.
C8_ScaleThenFraction ==
    /\ last # <<>> =>
          \A r \in LastRest :
              /\ LastTop.scale <= r.scale
              /\ LastTop.scale = r.scale => ~PctGreater(r.int_pct, LastTop.int_pct)
    /\ pc = "done" =>
          \A i \in 1 .. Len(features) :
              ( /\ \A j \in 1 .. Len(features) :
                      j # i => features[i].scale < features[j].scale
                /\ pool0 >= 2
                /\ ~covered(tile, difference(Cells, features[i].intersect_geoms)) )
              => /\ final_assets[1].id = features[i].id
                 /\ Len(final_assets) >= 2

C8_Witness ==
    /\ last # <<>>
    /\ \E r \in LastRest :
          /\ r.scale = LastTop.scale
          /\ r.year > LastTop.year
          /\ PctGreater(LastTop.int_pct, r.int_pct)

\* ---------------------------------------------------------------------
\* C9 as stated: the loop stops at the first pass after which the remaining
\* area is <= the tolerance, the tolerance itself included; otherwise when
\* the pool is exhausted, without error; each pass takes the geometry of
\* the row it selected off the remaining geometry.
C9_Original ==
    last # <<>> =>
        /\ Remaining <= Epsilon => pc = "done"
        /\ (Remaining > Epsilon /\ gdf = <<>>) => pc = "done"
        /\ (Remaining > Epsilon /\ gdf # <<>>) => pc = "loop"
        /\ tile_geom = last[1].geom \ LastTop.intersect_geoms

\* C9 amended: the loop stops at the first pass after which the remaining
\* area is strictly below the tolerance; at exactly the tolerance it goes
\* on while the pool has rows.
C9_StopRule ==
    last # <<>> =>
        /\ Remaining < Epsilon => pc = "done"
        /\ (Remaining >= Epsilon /\ gdf = <<>>) => pc = "done"
        /\ (Remaining >= Epsilon /\ gdf # <<>>) => pc = "loop"
        /\ tile_geom = last[1].geom \ LastTop.intersect_geoms
        /\ Len(final_assets) = iters

C9_Witness ==
    /\ last # <<>>
    /\ Remaining = Epsilon
    /\ pc = "loop"

\* ---------------------------------------------------------------------
\* C10: a zoom bound given on the command line is passed on unchanged, 0
\* included; the defaults replace only a bound that was not given; the
\* minzoom passed on is never negative and never above maxzoom.
C10_ZoomBounds ==
    mpc = "called" =>
        /\ minzoom = IF opts.minzoom.given THEN opts.minzoom.val ELSE maxzoom - 5
        /\ maxzoom = IF opts.maxzoom.given THEN opts.maxzoom.val ELSE pct75
        /\ minzoom >= 0
        /\ minzoom <= maxzoom

====
